---------------------------- MODULE Spec2Model ----------------------------
(***************************************************************************)
(* A model of parse_indexfiles.py: the two extractors, the metadata file   *)
(* reader, the directory scan, the CSV writer and the command line driver. *)
(* Text is modelled as sequences of one-character strings, so that         *)
(* stripping, splitting and pattern search are computed, not assumed.      *)
(***************************************************************************)
EXTENDS Integers, Sequences, FiniteSets, TLC

VARIABLES
    pc,         \* position of the program (or of the function under study)
    arg,        \* argument of the function under study
    ret,        \* its return value
    rootKind,   \* what the input path is: "missing", "file" or "dir"
    listing,    \* the entries of the root, in the order iterdir() yields them
    idx,        \* position of the scan loop in listing
    results,    \* the result collection of process_indexfiles_directory
    log,        \* the lines printed so far
    csv,        \* the file at <root>/plates_measurement_signatures.csv
    csvBefore   \* that file as it was when the program started

vars == <<pc, arg, ret, rootKind, listing, idx, results, log, csv, csvBefore>>

(***************************************************************************)
(* Bounds of the model.                                                    *)
(***************************************************************************)
MaxNameLen == 5
MaxSegs == 3
MaxHeaderCols == 3
MaxDataCols == 2
MaxEntries == 3

(***************************************************************************)
(* Text helpers: Python's str and re primitives the program uses.          *)
(***************************************************************************)
None == [ok |-> FALSE, val |-> <<>>]
Some(v) == [ok |-> TRUE, val |-> v]

Rep(c, n) == [i \in 1..n |-> c]

SeqsUpTo(S, lo, hi) == UNION {[1..n -> S] : n \in lo..hi}

RECURSIVE Join(_, _)
Join(parts, sep) ==
    IF parts = <<>> THEN <<>>
    ELSE IF Len(parts) = 1 THEN parts[1]
    ELSE parts[1] \o sep \o Join(Tail(parts), sep)

\* str.strip() with no argument removes these from both ends.
Whitespace == {" ", "\t", "\n", "\r", "\f"}

\* The least and the greatest member of a non-empty set of integers.
Min(S) == CHOOSE x \in S : \A y \in S : x <= y
Max(S) == CHOOSE x \in S : \A y \in S : x >= y

strip(s) ==
    LET kept == {i \in 1..Len(s) : s[i] \notin Whitespace}
    IN  IF kept = {} THEN <<>> ELSE SubSeq(s, Min(kept), Max(kept))

StartsWithAt(s, i, sub) ==
    /\ i + Len(sub) - 1 <= Len(s)
    /\ SubSeq(s, i, i + Len(sub) - 1) = sub

\* s.find(sub, from), 1-based; 0 when sub does not occur at or after from.
Find(s, sub, from) ==
    LET at == {i \in from..Len(s) : StartsWithAt(s, i, sub)}
    IN  IF at = {} THEN 0 ELSE Min(at)

\* str.split(sep): cut at each next occurrence of sep, left to right, the
\* search resuming after the occurrence; from is where the piece begins.
RECURSIVE SplitFrom(_, _, _)
SplitFrom(s, sep, from) ==
    LET i == Find(s, sep, from)
    IN  IF i = 0 THEN <<SubSeq(s, from, Len(s))>>
        ELSE <<SubSeq(s, from, i - 1)>> \o SplitFrom(s, sep, i + Len(sep))

split(s, sep) == SplitFrom(s, sep, 1)

\* sub in s
Contains(s, sub) == \E i \in 1..(Len(s) + 1) : StartsWithAt(s, i, sub)

LowerLetters ==
    <<"a","b","c","d","e","f","g","h","i","j","k","l","m",
      "n","o","p","q","r","s","t","u","v","w","x","y","z">>
UpperLetters ==
    <<"A","B","C","D","E","F","G","H","I","J","K","L","M",
      "N","O","P","Q","R","S","T","U","V","W","X","Y","Z">>

UpperChar(c) ==
    IF \E k \in 1..Len(LowerLetters) : LowerLetters[k] = c
    THEN UpperLetters[CHOOSE k \in 1..Len(LowerLetters) : LowerLetters[k] = c]
    ELSE c

\* str.upper()
upper(s) == [i \in 1..Len(s) |-> UpperChar(s[i])]

DigitChars == <<"0","1","2","3","4","5","6","7","8","9">>
IsDigit(c) == \E k \in 1..Len(DigitChars) : DigitChars[k] = c
DigitVal(c) == (CHOOSE k \in 1..Len(DigitChars) : DigitChars[k] = c) - 1

(***************************************************************************)
(* extract_measurement_signature: re.search of                             *)
(*   /([a-f0-9]{8}-[a-f0-9]{4}-[a-f0-9]{4}-[a-f0-9]{4}-[a-f0-9]{12})/      *)
(***************************************************************************)
UuidGroups == <<8, 4, 4, 4, 12>>

HexLower == {"a","b","c","d","e","f"} \cup {DigitChars[k] : k \in 1..Len(DigitChars)}

RECURSIVE GroupsPattern(_)
GroupsPattern(gs) ==
    IF gs = <<>> THEN <<>>
    ELSE Rep("hex", Head(gs))
         \o (IF Tail(gs) = <<>> THEN <<>> ELSE <<"dash">>)
         \o GroupsPattern(Tail(gs))

pattern == <<"slash">> \o GroupsPattern(UuidGroups) \o <<"slash">>

ClassMatch(cls, c) ==
    CASE cls = "slash" -> c = "/"
      [] cls = "dash"  -> c = "-"
      [] cls = "hex"   -> c \in HexLower

MatchAt(url, i) ==
    /\ i + Len(pattern) - 1 <= Len(url)
    /\ \A k \in 1..Len(pattern) : ClassMatch(pattern[k], url[i + k - 1])

\* A plausible slip: the pattern written without its closing slash.
signature_no_closing_slash(url) ==
    LET n == Len(pattern) - 1
        hit(i) == /\ i + n - 1 <= Len(url)
                  /\ \A k \in 1..n : ClassMatch(pattern[k], url[i + k - 1])
        hits == {i \in 1..Len(url) : hit(i)}
    IN  IF hits # {}
        THEN Some(SubSeq(url, Min(hits) + 1, Min(hits) + n - 1))
        ELSE None

extract_measurement_signature(url) ==
    LET matches == {i \in 1..Len(url) : MatchAt(url, i)}
    IN  IF matches # {}
        THEN Some(SubSeq(url, Min(matches) + 1, Min(matches) + Len(pattern) - 2))
        ELSE None

(***************************************************************************)
(* extract_plate_barcode: folder_name.split('__')[0]                       *)
(***************************************************************************)
\* A plausible slip: splitting on a single underscore.
barcode_single_underscore(folder_name) == split(folder_name, <<"_">>)[1]

extract_plate_barcode(folder_name) == split(folder_name, <<"_", "_">>)[1]

(***************************************************************************)
(* process_indexfile.  A metadata file is [state, lines]: state is "ok",   *)
(* "missing" (open raises FileNotFoundError) or "unreadable" (open or the  *)
(* first read raises another error); lines are its lines without their     *)
(* terminators.  The value is [sig, msgs, reads]: the returned signature,  *)
(* the lines printed, and the number of readline() calls made.             *)
(***************************************************************************)
File(state, lines) == [state |-> state, lines |-> lines]

TAB == <<"\t">>
URL == <<"U", "R", "L">>

Msg(kind, text, detail, n) == [kind |-> kind, text |-> text, detail |-> detail, n |-> n]

\* file.readline(): the k-th line, or the empty string at end of file.
readline(f, k) == IF k <= Len(f.lines) THEN f.lines[k] ELSE <<>>

\* for i, col in enumerate(header_cols): if 'URL' in col.upper(): ... break
\* The value is the 0-based index, or -1 for None.
RECURSIVE FirstUrlColumn(_, _)
FirstUrlColumn(header_cols, i) ==
    IF i >= Len(header_cols) THEN -1
    ELSE IF Contains(upper(header_cols[i + 1]), URL) THEN i
    ELSE FirstUrlColumn(header_cols, i + 1)

\* A plausible slip: the data line read before the header is examined.
process_indexfile_reads_ahead(indexfile_path, f) ==
    IF f.state = "missing"
    THEN [sig |-> None, reads |-> 0,
          msgs |-> <<Msg("ErrorProcessing", indexfile_path, "FileNotFoundError", 0)>>]
    ELSE IF f.state = "unreadable"
    THEN [sig |-> None, reads |-> 0,
          msgs |-> <<Msg("ErrorProcessing", indexfile_path, "OSError", 0)>>]
    ELSE
    LET header == strip(readline(f, 1))
        header_cols == split(header, TAB)
        url_col_index == FirstUrlColumn(header_cols, 0)
        first_line == strip(readline(f, 2))
        columns == split(first_line, TAB)
    IN  IF url_col_index = -1
        THEN [sig |-> None, reads |-> 2,
              msgs |-> <<Msg("NoUrlColumn", indexfile_path, "", 0)>>]
        ELSE IF first_line # <<>> /\ Len(columns) > url_col_index
        THEN [sig |-> extract_measurement_signature(columns[url_col_index + 1]),
              reads |-> 2, msgs |-> <<>>]
        ELSE [sig |-> None, reads |-> 2, msgs |-> <<>>]

process_indexfile(indexfile_path, f) ==
    IF f.state = "missing"
    THEN [sig |-> None, reads |-> 0,
          msgs |-> <<Msg("ErrorProcessing", indexfile_path, "FileNotFoundError", 0)>>]
    ELSE IF f.state = "unreadable"
    THEN [sig |-> None, reads |-> 0,
          msgs |-> <<Msg("ErrorProcessing", indexfile_path, "OSError", 0)>>]
    ELSE
    LET header == strip(readline(f, 1))
        header_cols == split(header, TAB)
        url_col_index == FirstUrlColumn(header_cols, 0)
    IN  IF url_col_index = -1
        THEN [sig |-> None, reads |-> 1,
              msgs |-> <<Msg("NoUrlColumn", indexfile_path, "", 0)>>]
        ELSE
        LET first_line == strip(readline(f, 2))
            columns == split(first_line, TAB)
        IN  IF first_line # <<>> /\ Len(columns) > url_col_index
            THEN [sig |-> extract_measurement_signature(columns[url_col_index + 1]),
                  reads |-> 2, msgs |-> <<>>]
            ELSE [sig |-> None, reads |-> 2, msgs |-> <<>>]

(***************************************************************************)
(* Inputs of the extractors.                                               *)
(***************************************************************************)
NameChars == {"1", "_", "a"}
FolderNames == SeqsUpTo(NameChars, 0, MaxNameLen)

\* A string of the UUID's length and dashes whose other characters are c,
\* except that the first group has first characters and is n long.
UuidLike(first, n, c) ==
    Rep(first, n) \o <<"-">> \o Rep(c, 4) \o <<"-">> \o Rep(c, 4) \o <<"-">>
    \o Rep(c, 4) \o <<"-">> \o Rep(c, 12)

UuidA == UuidLike("a", 8, "1")
Uuid0 == UuidLike("0", 8, "f")

Segments ==
    { <<>>, <<"h">>, UuidA, Uuid0,
      UuidLike("A", 8, "1"),      \* uppercase hex
      UuidLike("a", 7, "1"),      \* first group too short
      UuidLike("a", 9, "1"),      \* first group too long
      UuidLike("g", 8, "1") }     \* not hex

Urls == {Join(segs, <<"/">>) : segs \in SeqsUpTo(Segments, 1, MaxSegs)}

UrlA == <<"h", "/">> \o UuidA \o <<"/", "f">>
Url0 == <<"h", "/">> \o Uuid0 \o <<"/", "f">>

HeaderFields == { <<>>, <<"R", "o", "w">>, <<"U", "r", "l">> }
DataFields == { <<>>, <<"1">>, UrlA, Url0 }

HeaderLines == {Join(fs, TAB) : fs \in SeqsUpTo(HeaderFields, 1, MaxHeaderCols)}
DataLines == {Join(fs, TAB) : fs \in SeqsUpTo(DataFields, 1, MaxDataCols)}

IndexFiles ==
    {File("missing", <<>>), File("unreadable", <<>>), File("ok", <<>>)}
    \cup {File("ok", <<h>>) : h \in HeaderLines}
    \cup {File("ok", <<h, d>>) : h \in HeaderLines, d \in DataLines}
    \cup {File("ok", <<h, d, UrlA>>) : h \in HeaderLines, d \in DataLines}

\* The path handed to process_indexfile when it is studied on its own.
SomePath == <<"d", "/", "i">>

(***************************************************************************)
(* process_indexfiles_directory: one pass of the loop over iterdir().      *)
(* An entry of the root is [name, kind, index]: kind is "dir" or "file",   *)
(* index names the state of <name>/indexfile.txt.  Paths are written       *)
(* relative to the root.                                                   *)
(***************************************************************************)
IndexFileName == <<"i","n","d","e","x","f","i","l","e",".","t","x","t">>

Row == <<"R", "o", "w">>
UrlHeader == <<"U", "r", "l">>

IndexFileOf(index) ==
    CASE index = "absent"     -> File("missing", <<>>)
      [] index = "unreadable" -> File("unreadable", <<>>)
      [] index = "sigA"       -> File("ok", << Join(<<Row, UrlHeader>>, TAB),
                                               Join(<< <<"1">>, UrlA >>, TAB) >>)
      [] index = "sig0"       -> File("ok", << Join(<<Row, UrlHeader>>, TAB),
                                               Join(<< <<"1">>, Url0 >>, TAB) >>)
      [] index = "noUrl"      -> File("ok", << Row, UrlA >>)
      [] index = "short"      -> File("ok", << Join(<<Row, UrlHeader>>, TAB),
                                               <<"1">> >>)
      [] OTHER                -> File("missing", <<>>)

\* if measurement_signature:
Truthy(sig) == sig.ok /\ sig.val # <<>>

\* A plausible slip: the record appended whether or not a signature was
\* found.
process_entry_keeps_partial(e) ==
    LET plate_barcode == extract_plate_barcode(e.name)
        indexfile_path == e.name \o <<"/">> \o IndexFileName
        f == IndexFileOf(e.index)
        r == process_indexfile(indexfile_path, f)
    IN  IF e.kind # "dir" THEN [records |-> <<>>, msgs |-> <<>>]
        ELSE IF f.state # "missing"
        THEN [records |-> << <<plate_barcode, r.sig.val>> >>,
              msgs |-> r.msgs \o
                  <<Msg("Processed",
                        plate_barcode \o <<" ", "-", ">", " ">> \o r.sig.val, "", 0)>>]
        ELSE [records |-> <<>>,
              msgs |-> <<Msg("IndexNotFound", e.name, "", 0)>>]

\* The body of the loop for one entry: the records it appends and the lines
\* it prints.
process_entry(e) ==
    LET plate_barcode == extract_plate_barcode(e.name)
        indexfile_path == e.name \o <<"/">> \o IndexFileName
        f == IndexFileOf(e.index)
        r == process_indexfile(indexfile_path, f)
    IN  IF e.kind # "dir" THEN [records |-> <<>>, msgs |-> <<>>]
        ELSE IF f.state # "missing"
        THEN IF Truthy(r.sig)
             THEN [records |-> << <<plate_barcode, r.sig.val>> >>,
                   msgs |-> r.msgs \o
                       <<Msg("Processed",
                             plate_barcode \o <<" ", "-", ">", " ">> \o r.sig.val, "", 0)>>]
             ELSE [records |-> <<>>,
                   msgs |-> r.msgs \o <<Msg("NoSignature", plate_barcode, "", 0)>>]
        ELSE [records |-> <<>>,
              msgs |-> <<Msg("IndexNotFound", e.name, "", 0)>>]

RECURSIVE Flatten(_)
Flatten(parts) == IF parts = <<>> THEN <<>> ELSE Head(parts) \o Flatten(Tail(parts))

\* What each pass of the loop appends, entry by entry.
RecordsByEntry(entries) ==
    <<>> \o [k \in 1..Len(entries) |-> process_entry(entries[k]).records]

\* The whole loop over a listing, as a function of the listing.
process_indexfiles_directory(entries) == Flatten(RecordsByEntry(entries))

(***************************************************************************)
(* save_results_to_csv.  int(x[0]) is Python's int(str): surrounding       *)
(* whitespace, an optional sign, decimal digits with single underscores    *)
(* between them.  sorted() is stable.  The CSV is held as its header and   *)
(* its rows of fields, as csv.writer is given them.                        *)
(***************************************************************************)
RECURSIVE DecimalValue(_)
DecimalValue(ds) ==
    IF ds = <<>> THEN 0
    ELSE 10 * DecimalValue(SubSeq(ds, 1, Len(ds) - 1)) + DigitVal(ds[Len(ds)])

\* int(s): [ok, val]; ok is FALSE where Python raises ValueError.
ParseInt(s) ==
    LET t == strip(s)
        signed == t # <<>> /\ t[1] \in {"+", "-"}
        body == IF signed THEN Tail(t) ELSE t
        groups == split(body, <<"_">>)
        ok == \A g \in 1..Len(groups) :
                  /\ groups[g] # <<>>
                  /\ \A i \in 1..Len(groups[g]) : IsDigit(groups[g][i])
        magnitude == DecimalValue(Flatten(groups))
    IN  IF ok
        THEN [ok |-> TRUE,
              val |-> IF signed /\ t[1] = "-" THEN 0 - magnitude ELSE magnitude]
        ELSE [ok |-> FALSE, val |-> 0]

SortKey(x) == ParseInt(x[1]).val

\* x placed after every element whose key is not greater: a stable insertion.
RECURSIVE InsertStable(_, _)
InsertStable(sorted, x) ==
    IF sorted = <<>> THEN <<x>>
    ELSE IF SortKey(sorted[Len(sorted)]) <= SortKey(x) THEN Append(sorted, x)
    ELSE Append(InsertStable(SubSeq(sorted, 1, Len(sorted) - 1), x),
                sorted[Len(sorted)])

RECURSIVE StableSort(_)
StableSort(rs) ==
    IF rs = <<>> THEN <<>>
    ELSE InsertStable(StableSort(SubSeq(rs, 1, Len(rs) - 1)), rs[Len(rs)])

CsvHeader == <<"Plate_Barcode", "Measurement_Signature">>

CsvFile(rows) == Some([header |-> CsvHeader, rows |-> rows])

\* A plausible slip: the rows written in the order of the scan.
save_unsorted(rs, file) ==
    IF \E k \in 1..Len(rs) : ~ParseInt(rs[k][1]).ok
    THEN [raised |-> TRUE, csv |-> file, msgs |-> <<>>]
    ELSE [raised |-> FALSE, csv |-> CsvFile(rs),
          msgs |-> <<Msg("Saved", <<>>, "", 0)>>]

\* A plausible slip: a sort that is not stable, records of equal key coming
\* out in the reverse of their order.
RECURSIVE InsertBeforeTies(_, _)
InsertBeforeTies(sorted, x) ==
    IF sorted = <<>> THEN <<x>>
    ELSE IF SortKey(sorted[Len(sorted)]) < SortKey(x) THEN Append(sorted, x)
    ELSE Append(InsertBeforeTies(SubSeq(sorted, 1, Len(sorted) - 1), x),
                sorted[Len(sorted)])

RECURSIVE SortReversingTies(_)
SortReversingTies(rs) ==
    IF rs = <<>> THEN <<>>
    ELSE InsertBeforeTies(SortReversingTies(SubSeq(rs, 1, Len(rs) - 1)), rs[Len(rs)])

save_reverses_ties(rs, file) ==
    IF \E k \in 1..Len(rs) : ~ParseInt(rs[k][1]).ok
    THEN [raised |-> TRUE, csv |-> file, msgs |-> <<>>]
    ELSE [raised |-> FALSE, csv |-> CsvFile(SortReversingTies(rs)),
          msgs |-> <<Msg("Saved", <<>>, "", 0)>>]

\* A plausible slip: the file opened before the sort.
save_opens_first(rs, file) ==
    IF \E k \in 1..Len(rs) : ~ParseInt(rs[k][1]).ok
    THEN [raised |-> TRUE, csv |-> CsvFile(<<>>), msgs |-> <<>>]
    ELSE [raised |-> FALSE, csv |-> CsvFile(StableSort(rs)),
          msgs |-> <<Msg("Saved", <<>>, "", 0)>>]

\* The value is [raised, csv, msgs]: whether ValueError left the function,
\* the file at output_path afterwards, and the lines printed.
save_results_to_csv(rs, file) ==
    IF \E k \in 1..Len(rs) : ~ParseInt(rs[k][1]).ok
    THEN [raised |-> TRUE, csv |-> file, msgs |-> <<>>]
    ELSE [raised |-> FALSE, csv |-> CsvFile(StableSort(rs)),
          msgs |-> <<Msg("Saved", <<>>, "", 0)>>]

(***************************************************************************)
(* The roots main is run on.                                               *)
(***************************************************************************)
Dir(name, index) == [name |-> name, kind |-> "dir", index |-> index]
PlainFile(name) == [name |-> name, kind |-> "file", index |-> "none"]

\* The entries a root is made of: two folders of one barcode, a folder whose
\* barcode is the same integer written differently, one whose barcode is
\* smaller as an integer and greater as text, one whose barcode is no
\* integer; each in several states of its metadata file, or a plain file.
Entries ==
    LET tenA == <<"1", "0", "_", "_", "A">>
        tenB == <<"1", "0", "_", "_", "B">>
        zeroTen == <<"0", "1", "0">>
        nine == <<"9">>
        letters == <<"x", "_", "_", "C">>
    IN  { Dir(tenA, "sigA"), Dir(tenA, "short"), Dir(tenA, "absent"),
          Dir(tenB, "sig0"), Dir(tenB, "noUrl"), PlainFile(tenB),
          Dir(zeroTen, "sigA"), Dir(zeroTen, "sig0"), Dir(zeroTen, "unreadable"),
          Dir(nine, "sig0"), Dir(nine, "absent"), Dir(nine, "short"),
          Dir(letters, "sigA"), Dir(letters, "noUrl"), PlainFile(letters) }

\* The listings iterdir() can yield: no two entries of a directory share a name.
Listings ==
    {l \in SeqsUpTo(Entries, 0, MaxEntries) :
        \A i, j \in 1..Len(l) : i # j => l[i].name # l[j].name}

\* A CSV left in the root by an earlier run.
OldCsv == CsvFile(<< << <<"7">>, Uuid0 >> >>)

Logged(at, m) == [at |-> at, m |-> m]

LogAll(at, msgs) == [k \in 1..Len(msgs) |-> Logged(at, msgs[k])]

(***************************************************************************)
(* Spec: main, from the parsed arguments to its return.                    *)
(***************************************************************************)
Init ==
    /\ pc = "main"
    /\ arg = <<>>
    /\ ret = <<>>
    /\ rootKind \in {"missing", "file", "dir"}
    /\ listing \in (IF rootKind = "dir" THEN Listings ELSE {<<>>})
    /\ csvBefore \in (IF rootKind = "dir" THEN {None, OldCsv} ELSE {None})
    /\ csv = csvBefore
    /\ idx = 0
    /\ results = <<>>
    /\ log = <<>>

\* if not indexfiles_dir.exists(): ... return 1
RootMissing ==
    /\ pc = "main"
    /\ rootKind = "missing"
    /\ log' = Append(log, Logged(0, Msg("DoesNotExist", <<>>, "", 0)))
    /\ pc' = "return1"
    /\ UNCHANGED <<arg, ret, rootKind, listing, idx, results, csv, csvBefore>>

\* if not indexfiles_dir.is_dir(): ... return 1
RootNotDir ==
    /\ pc = "main"
    /\ rootKind = "file"
    /\ log' = Append(log, Logged(0, Msg("NotADirectory", <<>>, "", 0)))
    /\ pc' = "return1"
    /\ UNCHANGED <<arg, ret, rootKind, listing, idx, results, csv, csvBefore>>

\* process_indexfiles_directory is entered: results = []
StartScan ==
    /\ pc = "main"
    /\ rootKind = "dir"
    /\ log' = Append(log, Logged(0, Msg("Processing", <<>>, "", 0)))
    /\ results' = <<>>
    /\ idx' = 1
    /\ pc' = "scan"
    /\ UNCHANGED <<arg, ret, rootKind, listing, csv, csvBefore>>

\* A plausible slip: a failure in one folder ends the loop.
ScanEntryStopsOnFailure ==
    /\ pc = "scan"
    /\ idx <= Len(listing)
    /\ LET step == process_entry(listing[idx])
       IN  /\ results' = results \o step.records
           /\ log' = log \o LogAll(idx, step.msgs)
           /\ idx' = IF listing[idx].kind = "dir" /\ step.records = <<>>
                     THEN Len(listing) + 1
                     ELSE idx + 1
    /\ UNCHANGED <<pc, arg, ret, rootKind, listing, csv, csvBefore>>

\* One pass of: for folder_path in indexfiles_dir.iterdir()
ScanEntry ==
    /\ pc = "scan"
    /\ idx <= Len(listing)
    /\ LET step == process_entry(listing[idx])
       IN  /\ results' = results \o step.records
           /\ log' = log \o LogAll(idx, step.msgs)
    /\ idx' = idx + 1
    /\ UNCHANGED <<pc, arg, ret, rootKind, listing, csv, csvBefore>>

\* A plausible slip: an empty result set still written out.
NoResultsWritesCsv ==
    /\ pc = "scan"
    /\ idx > Len(listing)
    /\ results = <<>>
    /\ csv' = CsvFile(<<>>)
    /\ log' = Append(log, Logged(0, Msg("NoResults", <<>>, "", 0)))
    /\ pc' = "return1"
    /\ UNCHANGED <<arg, ret, rootKind, listing, idx, results, csvBefore>>

\* if not results: ... return 1
NoResults ==
    /\ pc = "scan"
    /\ idx > Len(listing)
    /\ results = <<>>
    /\ log' = Append(log, Logged(0, Msg("NoResults", <<>>, "", 0)))
    /\ pc' = "return1"
    /\ UNCHANGED <<arg, ret, rootKind, listing, idx, results, csv, csvBefore>>

\* save_results_to_csv(results, output_path), then the count and return 0;
\* a ValueError raised by the sort leaves main uncaught.
SaveResults ==
    /\ pc = "scan"
    /\ idx > Len(listing)
    /\ results # <<>>
    /\ LET saved == save_results_to_csv(results, csv)
       IN  /\ csv' = saved.csv
           /\ IF saved.raised
              THEN /\ pc' = "ValueError"
                   /\ log' = log
              ELSE /\ pc' = "return0"
                   /\ log' = log \o LogAll(0, saved.msgs)
                              \o <<Logged(0, Msg("Success", <<>>, "", Len(results)))>>
    /\ UNCHANGED <<arg, ret, rootKind, listing, idx, results, csvBefore>>

Next ==
    \/ RootMissing
    \/ RootNotDir
    \/ StartScan
    \/ ScanEntry
    \/ NoResults
    \/ SaveResults

Spec == Init /\ [][Next]_vars

Idle ==
    /\ rootKind = "missing"
    /\ listing = <<>>
    /\ idx = 0
    /\ results = <<>>
    /\ log = <<>>
    /\ csv = None
    /\ csvBefore = None

IdleUnchanged == UNCHANGED <<rootKind, listing, idx, results, log, csv, csvBefore>>

(***************************************************************************)
(* SpecSignature: extract_measurement_signature applied to every URL.      *)
(***************************************************************************)
InitSignature ==
    /\ pc = "call"
    /\ arg \in Urls
    /\ ret = None
    /\ Idle

CallSignature ==
    /\ pc = "call"
    /\ ret' = extract_measurement_signature(arg)
    /\ pc' = "return"
    /\ UNCHANGED arg
    /\ IdleUnchanged

NextSignature == CallSignature

SpecSignature == InitSignature /\ [][NextSignature]_vars

(***************************************************************************)
(* SpecBarcode: extract_plate_barcode applied to every folder name.        *)
(***************************************************************************)
InitBarcode ==
    /\ pc = "call"
    /\ arg \in FolderNames
    /\ ret = <<>>
    /\ Idle

CallBarcode ==
    /\ pc = "call"
    /\ ret' = extract_plate_barcode(arg)
    /\ pc' = "return"
    /\ UNCHANGED arg
    /\ IdleUnchanged

NextBarcode == CallBarcode

SpecBarcode == InitBarcode /\ [][NextBarcode]_vars

(***************************************************************************)
(* SpecIndexFile: process_indexfile applied to every metadata file.        *)
(***************************************************************************)
InitIndexFile ==
    /\ pc = "call"
    /\ arg \in IndexFiles
    /\ ret = [sig |-> None, reads |-> 0, msgs |-> <<>>]
    /\ Idle

CallIndexFile ==
    /\ pc = "call"
    /\ ret' = process_indexfile(SomePath, arg)
    /\ pc' = "return"
    /\ UNCHANGED arg
    /\ IdleUnchanged

NextIndexFile == CallIndexFile

SpecIndexFile == InitIndexFile /\ [][NextIndexFile]_vars

(***************************************************************************)
(* Vocabulary of the claims, stated on the raw text and not by the code's  *)
(* own steps.                                                              *)
(***************************************************************************)
\* The canonical UUID text: 36 characters, dashes at 9, 14, 19 and 24,
\* lowercase hexadecimal digits elsewhere.
IsUuidShape(s) ==
    /\ Len(s) = 36
    /\ \A i \in 1..Len(s) :
          IF i \in {9, 14, 19, 24} THEN s[i] = "-" ELSE s[i] \in HexLower

PathSegments(url) == split(url, <<"/">>)

UuidSegments(url) ==
    {k \in 1..Len(PathSegments(url)) : IsUuidShape(PathSegments(url)[k])}

\* The segments with a slash on both sides.
EnclosedUuidSegments(url) ==
    {k \in UuidSegments(url) : 1 < k /\ k < Len(PathSegments(url))}

\* C8 as stated: a URL with a UUID-shaped path segment yields exactly such a
\* segment, and a URL with none yields not-found.
C8_AnyUuidSegmentIsReturned ==
    pc = "return" =>
        IF UuidSegments(arg) # {}
        THEN ret.ok /\ \E k \in UuidSegments(arg) : ret.val = PathSegments(arg)[k]
        ELSE ret = None

\* C8 amended: the value is the leftmost UUID-shaped segment that has a slash
\* on both sides, and not-found when no segment is both UUID-shaped and so
\* enclosed (a UUID-shaped first or last segment without the slash is not
\* found); a segment with uppercase digits is never returned.
C8_EnclosedUuidSegmentIsReturned ==
    pc = "return" =>
        /\ IF EnclosedUuidSegments(arg) # {}
           THEN ret = Some(PathSegments(arg)[Min(EnclosedUuidSegments(arg))])
           ELSE ret = None
        /\ ret.ok => \A i \in 1..Len(ret.val) :
                        \A k \in 1..Len(UpperLetters) : ret.val[i] # UpperLetters[k]

\* A URL whose last segment is a UUID with no slash after it, and which has
\* an enclosed UUID before it: the enclosed one is returned.
C8_Witness ==
    /\ pc = "return"
    /\ ret = Some(Uuid0)
    /\ PathSegments(arg)[Len(PathSegments(arg))] = UuidA

DelimiterPositions(name) ==
    {i \in 1..(Len(name) - 1) : name[i] = "_" /\ name[i + 1] = "_"}

\* C9: the barcode is the text before the first "__" of the folder name, and
\* the whole name when it holds no "__".
C9_BarcodeIsPrefixBeforeFirstDelimiter ==
    pc = "return" =>
        IF DelimiterPositions(arg) = {}
        THEN ret = arg
        ELSE ret = SubSeq(arg, 1, Min(DelimiterPositions(arg)) - 1)

\* A name with several delimiters and a non-empty barcode holding a single
\* underscore.
C9_Witness ==
    /\ pc = "return"
    /\ Cardinality(DelimiterPositions(arg)) >= 2
    /\ \E i \in 1..Len(ret) : ret[i] = "_"

\* The columns of a line as the tab-separated format defines them.
RawColumns(line) == split(line, TAB)

RawUrlColumns(f) ==
    {k \in 1..Len(RawColumns(readline(f, 1))) :
        Contains(upper(RawColumns(readline(f, 1))[k]), URL)}

\* C6 as stated: a returned signature is the extractor's value on the field
\* of the first data line at the tab-separated index of the leftmost header
\* column naming URL.
C6_SignatureComesFromUrlColumn ==
    (pc = "return" /\ arg.state = "ok" /\ ret.sig.ok) =>
        /\ RawUrlColumns(arg) # {}
        /\ Len(RawColumns(readline(arg, 2))) >= Min(RawUrlColumns(arg))
        /\ ret.sig = extract_measurement_signature(
                         RawColumns(readline(arg, 2))[Min(RawUrlColumns(arg))])

\* What a caller of process_indexfile can observe of one call.
Outcome(r) == <<r.sig, r.msgs>>

Category(f) ==
    IF f.state = "missing" THEN "file not found"
    ELSE IF f.state = "unreadable" THEN "read error"
    ELSE IF RawUrlColumns(f) = {} THEN "missing URL column"
    ELSE IF \/ readline(f, 2) = <<>>
            \/ Len(RawColumns(readline(f, 2))) < Min(RawUrlColumns(f))
    THEN "malformed row"
    ELSE IF extract_measurement_signature(
                RawColumns(readline(f, 2))[Min(RawUrlColumns(f))]).ok
    THEN "signature"
    ELSE "no signature"

\* One file of each kind the claim tells apart.
ReferenceFiles ==
    { File("missing", <<>>),
      File("ok", << <<"R", "o", "w">> >>),
      File("ok", << Join(<< <<"R", "o", "w">>, URL >>, TAB), <<"1">> >>),
      File("ok", << URL, <<"1">> >>) }

Terminated == pc \in {"return0", "return1", "ValueError"}

\* The scan loop has run to its end.
Scanned == rootKind = "dir" /\ pc # "main" /\ idx > Len(listing)

PathOfIndex(e) == e.name \o <<"/">> \o IndexFileName

HasIndexFile(e) == IndexFileOf(e.index).state # "missing"

SignatureOf(e) == process_indexfile(PathOfIndex(e), IndexFileOf(e.index)).sig

\* A subdirectory with a metadata file from which a signature is derived.
Successful(e) == e.kind = "dir" /\ HasIndexFile(e) /\ SignatureOf(e).ok

\* A subdirectory that is skipped.
Failing(e) == e.kind = "dir" /\ ~Successful(e)

\* The signature derived for each entry of the listing, None where the entry
\* is no subdirectory or has no metadata file.
SignatureOfEntry ==
    [e \in Entries |-> IF e.kind = "dir" /\ HasIndexFile(e) THEN SignatureOf(e) ELSE None]

Signatures(entries) == <<>> \o [k \in 1..Len(entries) |-> SignatureOfEntry[entries[k]]]

\* The entries whose metadata file can be read and has no URL column.
LacksUrlColumn ==
    {e \in Entries : /\ e.kind = "dir"
                     /\ IndexFileOf(e.index).state = "ok"
                     /\ RawUrlColumns(IndexFileOf(e.index)) = {}}

\* What the loop body appends for each entry.
RecordsOfEntry == [e \in Entries |-> process_entry(e).records]

WarningKinds == {"IndexNotFound", "NoSignature", "NoUrlColumn", "ErrorProcessing"}

LinesAt(k) == {i \in 1..Len(log) : log[i].at = k}

AllNumeric(rs) == \A k \in 1..Len(rs) : ParseInt(rs[k][1]).ok

Occurrences(seq, x) == Cardinality({k \in 1..Len(seq) : seq[k] = x})

IsPermutationOf(a, b) ==
    /\ Len(a) = Len(b)
    /\ \A k \in 1..Len(a) : Occurrences(a, a[k]) = Occurrences(b, a[k])

\* C1: once the scan has returned, the result collection holds one record
\* (barcode, signature) for each subdirectory that has a metadata file from
\* which a signature was derived, in the order of the listing, and nothing
\* else; each other subdirectory has a warning, and a plain file under the
\* root has neither record nor line.
C1_RecordsAreTheSuccessfulFolders ==
    Scanned =>
        LET sig == Signatures(listing)
            good == {k \in 1..Len(listing) : sig[k].ok}
            rank(k) == Cardinality({j \in good : j <= k})
        IN  /\ Len(results) = Cardinality(good)
            /\ \A k \in good :
                  results[rank(k)] = <<extract_plate_barcode(listing[k].name), sig[k].val>>
            /\ \A k \in 1..Len(listing) :
                  /\ (listing[k].kind = "dir" /\ k \notin good) =>
                        \E i \in LinesAt(k) : log[i].m.kind \in WarningKinds
                  /\ k \in good =>
                        \A i \in LinesAt(k) : log[i].m.kind = "Processed"
                  /\ listing[k].kind = "file" => LinesAt(k) = {}

\* A root with a good folder, a folder without its metadata file, a folder
\* whose reader finds no signature, after the scan.
C1_Witness ==
    /\ Scanned
    /\ results = process_indexfiles_directory(listing)
    /\ Len(results) = 1
    /\ \E i, j, k \in 1..Len(listing) :
          /\ Successful(listing[i])
          /\ listing[j].kind = "dir" /\ ~HasIndexFile(listing[j])
          /\ HasIndexFile(listing[k]) /\ Failing(listing[k])

\* C2: when every barcode of the collection is an integer, the CSV holds the
\* header and one row per record, the rows being a permutation of the
\* records in ascending order of the barcode as an integer.
C2_RowsAreRecordsInNumericOrder ==
    /\ (Terminated /\ Scanned /\ results # <<>> /\ AllNumeric(results))
          => pc = "return0"
    /\ pc = "return0" =>
          /\ csv.ok
          /\ csv.val.header = <<"Plate_Barcode", "Measurement_Signature">>
          /\ IsPermutationOf(csv.val.rows, results)
          /\ \A i, j \in 1..Len(csv.val.rows) :
                i < j => ParseInt(csv.val.rows[i][1]).val
                             <= ParseInt(csv.val.rows[j][1]).val

\* Barcode 10 scanned before barcode 9 and written after it.
C2_Witness ==
    /\ pc = "return0"
    /\ Len(results) >= 2
    /\ results[1][1] = <<"1", "0">>
    /\ results[2][1] = <<"9">>
    /\ csv.val.rows[1][1] = <<"9">>

\* C3: when a barcode of the collection is no integer, the writer fails and
\* the file at the output path is as it was: not created, not emptied, no
\* row written.
C3_NonNumericBarcodeLeavesFileUntouched ==
    /\ (Terminated /\ Scanned /\ results # <<>> /\ ~AllNumeric(results))
          => pc = "ValueError"
    /\ pc = "ValueError" => (csv = csvBefore /\ ~AllNumeric(results))

\* The writer fails on a collection that also holds an integer barcode, over
\* an earlier CSV.
C3_Witness ==
    /\ pc = "ValueError"
    /\ csvBefore = OldCsv
    /\ \E k \in 1..Len(results) : ParseInt(results[k][1]).ok

ReportedCount == log[Len(log)].m.n

WroteCsv ==
    /\ csv.ok
    /\ Len(csv.val.rows) = Len(results)
    /\ log[Len(log)].m.kind = "Success"
    /\ ReportedCount = Len(csv.val.rows)

ExitOneCase == rootKind = "missing" \/ rootKind = "file" \/ results = <<>>

\* C4 as stated: main returns 1 and writes nothing when the root is missing,
\* is no directory or the scan found nothing, and in every other run writes
\* the CSV, reports the number of rows and returns 0.
C4_ExitOneInThreeCasesElseZero ==
    Terminated =>
        IF ExitOneCase
        THEN pc = "return1" /\ csv = csvBefore
        ELSE pc = "return0" /\ WroteCsv

\* C4 amended: as stated, except that a run whose results hold a barcode
\* that is no integer neither returns 0 nor writes the CSV: the writer's
\* ValueError leaves main.
C4_ExitCodes ==
    Terminated =>
        IF ExitOneCase
        THEN pc = "return1" /\ csv = csvBefore
        ELSE IF ~AllNumeric(results)
        THEN pc = "ValueError" /\ csv = csvBefore
        ELSE pc = "return0" /\ WroteCsv

\* Two good folders and a skipped one, over an earlier CSV: exit code 0 and
\* two rows.
C4_Witness ==
    /\ pc = "return0"
    /\ csvBefore = OldCsv
    /\ Len(listing) = 3
    /\ ReportedCount = 2
    /\ \E k \in 1..Len(listing) : Failing(listing[k])

NameOfPath(text) == split(text, <<"/">>)[1]

SameBarcodeElsewhere(k) ==
    \E j \in 1..Len(listing) :
        /\ j # k
        /\ listing[j].kind = "dir"
        /\ extract_plate_barcode(listing[j].name) = extract_plate_barcode(listing[k].name)

\* The line tells which folder of the root it is about.
Identifies(m, k) ==
    \/ m.kind \in {"IndexNotFound", "NoUrlColumn", "ErrorProcessing"}
       /\ NameOfPath(m.text) = listing[k].name
    \/ m.kind = "NoSignature"
       /\ m.text = extract_plate_barcode(listing[k].name)
       /\ ~SameBarcodeElsewhere(k)

\* Every subdirectory is visited, and the records are those of the listing
\* with the skipped folders taken out.
FailuresDoNotEscalate(sig) ==
    /\ \A k \in 1..Len(listing) : listing[k].kind = "dir" => LinesAt(k) # {}
    /\ LET kept == {k \in 1..Len(listing) : listing[k].kind # "dir" \/ sig[k].ok}
           rank(i) == CHOOSE k \in kept : Cardinality({j \in kept : j <= k}) = i
       IN  results = Flatten([i \in 1..Cardinality(kept) |-> RecordsOfEntry[listing[rank(i)]]])

\* C5 as stated: a failure in one folder leaves the scan of the others as it
\* would be without that folder, and a line identifying the folder or its
\* path is printed for it.
C5_SkippedFolderIsIdentified ==
    Scanned =>
        LET sig == Signatures(listing)
        IN  /\ FailuresDoNotEscalate(sig)
            /\ \A k \in 1..Len(listing) :
                  (listing[k].kind = "dir" /\ ~sig[k].ok) =>
                      \E i \in LinesAt(k) : Identifies(log[i].m, k)

\* C5 amended: as stated, except for what the line names: the folder's path
\* when the metadata file is missing, the metadata file's path when it has
\* no URL column or cannot be read, and otherwise (an empty or short data
\* row, a URL without a UUID) only the folder's barcode, which other folders
\* of the root may share.
C5_SkippedFolderIsReported ==
    Scanned =>
      LET sig == Signatures(listing)
      IN
        /\ FailuresDoNotEscalate(sig)
        /\ \A k \in 1..Len(listing) :
              (listing[k].kind = "dir" /\ ~sig[k].ok) =>
                  LET e == listing[k]
                      lines == {log[i].m : i \in LinesAt(k)}
                      warned == Msg("NoSignature", extract_plate_barcode(e.name), "", 0)
                  IN  IF ~HasIndexFile(e)
                      THEN lines = {Msg("IndexNotFound", e.name, "", 0)}
                      ELSE IF IndexFileOf(e.index).state = "unreadable"
                      THEN lines = {Msg("ErrorProcessing", PathOfIndex(e), "OSError", 0),
                                    warned}
                      ELSE IF e \in LacksUrlColumn
                      THEN lines = {Msg("NoUrlColumn", PathOfIndex(e), "", 0), warned}
                      ELSE lines = {warned}

\* A folder that fails first in the listing, two good folders after it.
C5_Witness ==
    /\ Scanned
    /\ Len(listing) = 3
    /\ Failing(listing[1])
    /\ HasIndexFile(listing[1])
    /\ Successful(listing[2])
    /\ Successful(listing[3])
    /\ Len(results) = 2

\* The rows written for the same root listed in the order p, given what
\* each entry of the listing contributes: the scan of the reordered listing
\* appends the entries' records in the order p.
RowsFor(byEntry, p) ==
    save_results_to_csv(
        Flatten([i \in 1..Len(byEntry) |-> byEntry[p[i]]]), csvBefore).csv.val.rows

DistinctKeys(rs) ==
    \A i, j \in 1..Len(rs) : i # j => ParseInt(rs[i][1]).val # ParseInt(rs[j][1]).val

\* C10 as stated: whatever the order of the listing, the same rows are
\* written.
C10_RowsIndependentOfListingOrder ==
    pc = "return0" =>
        LET byEntry == <<>> \o [k \in 1..Len(listing) |-> RecordsOfEntry[listing[k]]]
        IN  \A p \in Permutations(1..Len(listing)) : csv.val.rows = RowsFor(byEntry, p)

\* C10 amended: the rows do not depend on the order of the listing when no
\* two records have barcodes equal as integers; records whose barcodes are
\* equal as integers are written in the order the listing had them.
C10_RowsIndependentUpToTies ==
    pc = "return0" =>
        LET byEntry == <<>> \o [k \in 1..Len(listing) |-> RecordsOfEntry[listing[k]]]
        IN  /\ DistinctKeys(results) =>
                  \A p \in Permutations(1..Len(listing)) :
                      csv.val.rows = RowsFor(byEntry, p)
            /\ \A k \in 1..Len(results) :
                  LET tied(x) == ParseInt(x[1]).val = ParseInt(results[k][1]).val
                  IN  SelectSeq(csv.val.rows, tied) = SelectSeq(results, tied)

\* Two records of distinct barcodes scanned in descending order beside a
\* skipped folder.
C10_Witness ==
    /\ pc = "return0"
    /\ Len(listing) = 3
    /\ Len(results) = 2
    /\ DistinctKeys(results)
    /\ ParseInt(results[1][1]).val > ParseInt(results[2][1]).val
    /\ csv.val.rows # results

=============================================================================
